---- MODULE Spec2Model ----
(***************************************************************************)
(* Model of the Dev.to context provider's core: the comment-tree builder   *)
(* of src/services/devto.ts and the analyzers of                           *)
(* src/utils/content-analysis.ts.                                          *)
(*                                                                         *)
(* Every component is a synchronous function of its input.  Each           *)
(* specification below draws an input in Init and applies one function in  *)
(* a single action that moves pc from "ready" to "done".                   *)
(*                                                                         *)
(* Comment records are JavaScript objects; the model names an object by    *)
(* its index in the input array, so two records carrying the same id stay  *)
(* two different objects.  The heap after buildCommentTree is              *)
(*   rootComments : the returned array, a sequence of indices              *)
(*   children     : index -> that object's children array                  *)
(*                                                                         *)
(* content-analysis.ts declares every function twice (lines 1-238 and      *)
(* lines 240-446).  Where a build accepts the file, the later declaration  *)
(* of a name is the one bound to it, so the exported functions are         *)
(* modelled from the later declarations; helpers that only the earlier     *)
(* text reaches are modelled under their own names.                        *)
(***************************************************************************)
EXTENDS Integers, Sequences, FiniteSets, TLC

VARIABLES pc, comments, rootComments, children, content, technical,
          discussion, metrics, author, articles, authorContext

vars == <<pc, comments, rootComments, children, content, technical,
          discussion, metrics, author, articles, authorContext>>

\* Bounds of the model.
MaxComments == 3
MaxId == 3
MaxDiscussion == 2
MaxFences == 13
MaxArticles == 3
MaxReactions == 3
MaxTagOccurrences == 7
MaxTagsPerArticle == 2

\* Value of a variable the running specification does not use.
Unused == "unused"

Range(s) == {s[i] : i \in 1..Len(s)}

(***************************************************************************)
(* Comment records.  parent_id = 0 stands for every falsy parent_id        *)
(* (absent, null, undefined, 0): line 99 of devto.ts treats them alike.    *)
(* body_markdown is the comment text reduced to what the analyzers read:   *)
(* its length, whether it includes "```", whether it includes "http",      *)
(* and whether the positive / negative keyword pattern matches it.         *)
(***************************************************************************)
PlainBody == [length |-> 100, code |-> FALSE, http |-> FALSE,
              positive |-> FALSE, negative |-> FALSE]

Usernames == {"ann", "bob"}

\* Ids a comment can carry, and the parent ids it can declare: falsy (0),
\* an id of the id range, or MaxId + 1, an id no comment carries.
CommentIds == 1..MaxId
ParentIds == 0..(MaxId + 1)

TreeComments ==
    {[id |-> i, parent_id |-> p, body_markdown |-> PlainBody,
      user |-> [username |-> "ann"]] : i \in CommentIds, p \in ParentIds}

(***************************************************************************)
(* DevToAPI.buildCommentTree                                               *)
(***************************************************************************)
\* First pass (lines 92-95): every record gets an empty children array and
\* commentMap.set(comment.id, comment) overwrites an earlier entry.
MapSetFirstWins(map, id, i) == IF id \in DOMAIN map THEN map ELSE (id :> i) @@ map

MapSet(map, id, i) == (id :> i) @@ map

RECURSIVE FirstPass(_, _, _)
FirstPass(cs, i, map) ==
    IF i > Len(cs) THEN map
    ELSE FirstPass(cs, i + 1, MapSet(map, cs[i].id, i))

EmptyMap == [x \in {} |-> 0]

CommentMap(cs) == FirstPass(cs, 1, EmptyMap)

\* Second pass, one iteration (lines 98-107).  st = [roots, kids].
PlaceCommentUnresolvedToRoot(cs, i, map, st) ==
    IF cs[i].parent_id # 0 /\ cs[i].parent_id \in DOMAIN map
    THEN [st EXCEPT !.kids[map[cs[i].parent_id]] = Append(@, i)]
    ELSE [st EXCEPT !.roots = Append(@, i)]

PlaceCommentInFront(cs, i, map, st) ==
    IF cs[i].parent_id # 0
    THEN IF cs[i].parent_id \in DOMAIN map
         THEN [st EXCEPT !.kids[map[cs[i].parent_id]] = <<i>> \o @]
         ELSE st
    ELSE [st EXCEPT !.roots = <<i>> \o @]

PlaceComment(cs, i, map, st) ==
    IF cs[i].parent_id # 0
    THEN IF cs[i].parent_id \in DOMAIN map
         THEN [st EXCEPT !.kids[map[cs[i].parent_id]] = Append(@, i)]
         ELSE st
    ELSE [st EXCEPT !.roots = Append(@, i)]

RECURSIVE SecondPass(_, _, _, _)
SecondPass(cs, i, map, st) ==
    IF i > Len(cs) THEN st
    ELSE SecondPass(cs, i + 1, map, PlaceComment(cs, i, map, st))

buildCommentTree(cs) ==
    SecondPass(cs, 1, CommentMap(cs),
               [roots |-> <<>>, kids |-> [i \in 1..Len(cs) |-> <<>>]])

(***************************************************************************)
(* Specification of the tree builder.                                      *)
(***************************************************************************)
InitTree ==
    /\ pc = "ready"
    /\ \E k \in 0..MaxComments : comments \in [1..k -> TreeComments]
    /\ rootComments = <<>>
    /\ children = [i \in 1..Len(comments) |-> <<>>]
    /\ content = Unused /\ technical = Unused /\ discussion = Unused
    /\ author = Unused /\ articles = Unused /\ authorContext = Unused
    /\ metrics = Unused

BuildCommentTree ==
    /\ pc = "ready"
    /\ LET t == buildCommentTree(comments)
       IN /\ rootComments' = t.roots
          /\ children' = t.kids
    /\ pc' = "done"
    /\ UNCHANGED <<metrics, comments, content, technical, discussion, author,
                   articles, authorContext>>

NextTree == BuildCommentTree

SpecTree == InitTree /\ [][NextTree]_vars

(***************************************************************************)
(* Reading the heap buildCommentTree leaves behind.                        *)
(***************************************************************************)
\* Pre-order traversal of a list of records, following children arrays.
RECURSIVE PreOrder(_, _)
PreOrder(list, kids) ==
    IF list = <<>> THEN <<>>
    ELSE <<Head(list)>> \o PreOrder(kids[Head(list)], kids)
                        \o PreOrder(Tail(list), kids)

Occurrences(s, x) == Cardinality({k \in 1..Len(s) : s[k] = x})

\* Number of array slots (root list or any children array) that hold record i.
RECURSIVE SumOver(_, _, _)
SumOver(S, kids, x) ==
    IF S = {} THEN 0
    ELSE LET j == CHOOSE j \in S : TRUE
         IN Occurrences(kids[j], x) + SumOver(S \ {j}, kids, x)

Slots(i) ==
    Occurrences(rootComments, i) + SumOver(DOMAIN children, children, i)

Reachable == Range(PreOrder(rootComments, children))

IdsOf(cs) == {cs[i].id : i \in 1..Len(cs)}

NoDuplicateIds(cs) == \A i, j \in 1..Len(cs) : cs[i].id = cs[j].id => i = j

InSomeChildren(i) == \E j \in DOMAIN children : i \in Range(children[j])

\* The record declares a parent that no input record carries as its id.
ParentMissing(cs, i) == cs[i].parent_id # 0 /\ cs[i].parent_id \notin IdsOf(cs)

SelfParent(cs, i) == cs[i].parent_id = cs[i].id

LastWithId(cs, i) == \A j \in 1..Len(cs) : cs[j].id = cs[i].id => j <= i

\* C1: a comment whose declared parent id is the id of no input comment is
\* not dropped: it is in the returned root list.
C1_OrphanInRoots ==
    pc = "done" =>
        \A i \in 1..Len(comments) :
            ParentMissing(comments, i) => i \in Range(rootComments)

\* C2: for an input without duplicate ids, the pre-order traversal of the
\* returned roots visits every input id exactly once.
C2_RoundTrip ==
    (pc = "done" /\ NoDuplicateIds(comments)) =>
        LET flat == PreOrder(rootComments, children)
        IN /\ {comments[flat[k]].id : k \in 1..Len(flat)} = IdsOf(comments)
           /\ Len(flat) = Len(comments)

\* C3: a comment whose parent id is missing from the input or equal to its
\* own id is in the root list and in no children array (so a
\* self-referential comment is not its own child).
C3_MissingOrSelfParentIsRoot ==
    pc = "done" =>
        \A i \in 1..Len(comments) :
            (ParentMissing(comments, i) \/ SelfParent(comments, i)) =>
                /\ i \in Range(rootComments)
                /\ ~InSomeChildren(i)

\* C4 as stated: every record reachable from the roots sits in exactly one
\* slot, and of the input records that share an id only one is in the output.
C4_OneRecordPerIdSurvives ==
    pc = "done" =>
        /\ \A i \in Reachable : Slots(i) = 1
        /\ \A i, j \in Reachable : comments[i].id = comments[j].id => i = j

\* C4 as amended: every record reachable from the roots sits in exactly one
\* slot, and of the input records that share an id only the last one is in
\* the lookup, so only that one is ever given children; every record with a
\* falsy parent id is a root, whatever ids it shares.
C4_ForestLastIdOwnsChildren ==
    pc = "done" =>
        /\ \A i \in Reachable : Slots(i) = 1
        /\ \A i \in 1..Len(comments) :
               children[i] # <<>> => LastWithId(comments, i)
        /\ \A i \in 1..Len(comments) :
               comments[i].parent_id = 0 => i \in Range(rootComments)

\* Two records share an id, both are roots, and the reply is under the later.
C4_Witness ==
    /\ pc = "done"
    /\ Len(comments) = 3
    /\ comments[1].id = comments[2].id
    /\ rootComments = <<1, 2>>
    /\ children[2] = <<3>>
    /\ children[1] = <<>>

(***************************************************************************)
(* analyzeTechnicalDepth (content-analysis.ts lines 254-276)               *)
(*                                                                         *)
(* The article body is reduced to what the function reads:                 *)
(*   terms  : the dictionary terms of which the lower-cased body includes  *)
(*            the lower-cased term                                         *)
(*   fences : the number of "```" markers, scanned left to right           *)
(* extractPrerequisites reads nothing the tier depends on and its result   *)
(* is left out of the modelled TechnicalContext.                           *)
(***************************************************************************)
technicalTerms ==
    [beginner |-> <<"function", "variable", "loop", "if statement", "array">>,
     intermediate |-> <<"recursion", "middleware", "authentication", "API",
                        "database">>,
     advanced |-> <<"distributed systems", "microservices", "kubernetes",
                    "machine learning", "blockchain">>]

\* content.match(/```[\s\S]*?```/g): the non-greedy pattern pairs each
\* marker with the next one, so k markers give k div 2 matches.
codeBlockCount(c) == c.fences \div 2

\* dictionary.filter(term => content.toLowerCase().includes(term.toLowerCase()))
Filter(dictionary, c) == SelectSeq(dictionary, LAMBDA term : term \in c.terms)

foundTerms(c) ==
    [beginner |-> Filter(technicalTerms.beginner, c),
     intermediate |-> Filter(technicalTerms.intermediate, c),
     advanced |-> Filter(technicalTerms.advanced, c)]

\* Lines 263-268.
depthAtLeast(found, count) ==
    IF Len(found.advanced) >= 2 \/ count >= 5 THEN "advanced"
    ELSE IF Len(found.intermediate) >= 3 \/ count >= 2 THEN "intermediate"
    ELSE "beginner"

depthExactCount(found, count) ==
    IF Len(found.advanced) > 2 \/ count > 5 THEN "advanced"
    ELSE IF Len(found.intermediate) > 3 \/ count = 3 THEN "intermediate"
    ELSE "beginner"

depth(found, count) ==
    IF Len(found.advanced) > 2 \/ count > 5 THEN "advanced"
    ELSE IF Len(found.intermediate) > 3 \/ count > 2 THEN "intermediate"
    ELSE "beginner"

analyzeTechnicalDepth(c) ==
    [depth |-> depth(foundTerms(c), codeBlockCount(c)),
     codeBlockCount |-> codeBlockCount(c),
     technicalTerms |-> foundTerms(c)]

Contents ==
    {[terms |-> a \cup i \cup b, fences |-> f] :
        a \in SUBSET Range(technicalTerms.advanced),
        i \in SUBSET Range(technicalTerms.intermediate),
        b \in {{}, {"function"}},
        f \in 0..MaxFences}

InitDepth ==
    /\ pc = "ready"
    /\ content \in Contents
    /\ technical = Unused
    /\ comments = Unused /\ rootComments = Unused /\ children = Unused
    /\ discussion = Unused
    /\ author = Unused /\ articles = Unused /\ authorContext = Unused
    /\ metrics = Unused

AnalyzeTechnicalDepth ==
    /\ pc = "ready"
    /\ technical' = analyzeTechnicalDepth(content)
    /\ pc' = "done"
    /\ UNCHANGED <<metrics, comments, rootComments, children, content, discussion,
                   author, articles, authorContext>>

NextDepth == AnalyzeTechnicalDepth

SpecDepth == InitDepth /\ [][NextDepth]_vars

TierRank(t) == CASE t = "beginner" -> 0 [] t = "intermediate" -> 1
                 [] t = "advanced" -> 2

AdvancedIn(c) == Cardinality(c.terms \cap Range(technicalTerms.advanced))

IntermediateIn(c) == Cardinality(c.terms \cap Range(technicalTerms.intermediate))

\* C5: the tier is advanced iff more than 2 advanced terms occur or there
\* are more than 5 code blocks; otherwise intermediate iff more than 3
\* intermediate terms occur or there are more than 2 code blocks; otherwise
\* beginner.
C5_TierPrecedence ==
    pc = "done" =>
        LET adv == AdvancedIn(content) > 2 \/ content.fences \div 2 > 5
            mid == IntermediateIn(content) > 3 \/ content.fences \div 2 > 2
        IN /\ technical.depth = "advanced" <=> adv
           /\ technical.depth = "intermediate" <=> (~adv /\ mid)
           /\ technical.depth = "beginner" <=> (~adv /\ ~mid)

\* Scenario 1 of the spec: 3 code blocks and 2 advanced terms, intermediate.
C5_Witness ==
    /\ pc = "done"
    /\ technical.codeBlockCount = 3
    /\ Len(technical.technicalTerms.advanced) = 2
    /\ Len(technical.technicalTerms.intermediate) = 0
    /\ technical.depth = "intermediate"

\* C6: with the found terms fixed, more code blocks never lower the tier.
C6_MonotonicInCodeBlocks ==
    pc = "done" =>
        \A f \in 0..MaxFences :
            f \div 2 >= technical.codeBlockCount =>
                TierRank(analyzeTechnicalDepth([content EXCEPT !.fences = f]).depth)
                    >= TierRank(technical.depth)

\* A body whose tier code blocks alone raised to intermediate; the check
\* above compares it with every larger code-block count.
C6_Witness ==
    /\ pc = "done"
    /\ technical.codeBlockCount = 3
    /\ technical.depth = "intermediate"
    /\ content.terms = {}
    /\ analyzeTechnicalDepth([content EXCEPT !.fences = MaxFences]).depth = "advanced"

(***************************************************************************)
(* analyzeDiscussion and its helpers (content-analysis.ts)                 *)
(*                                                                         *)
(* extractDiscussionTopics reads the words of the bodies, which the        *)
(* reduced body does not carry; the topics field is left out of the        *)
(* modelled DiscussionContext.                                             *)
(***************************************************************************)
RECURSIVE SumLengths(_)
SumLengths(cs) ==
    IF cs = <<>> THEN 0
    ELSE Head(cs).body_markdown.length + SumLengths(Tail(cs))

\* Number of comments whose body matches the positive / negative pattern.
CountPositive(cs) == Cardinality({i \in 1..Len(cs) : cs[i].body_markdown.positive})

CountNegative(cs) == Cardinality({i \in 1..Len(cs) : cs[i].body_markdown.negative})

\* Array.from(new Set(list)): first occurrences, in order.
RECURSIVE Distinct(_)
Distinct(list) ==
    IF list = <<>> THEN <<>>
    ELSE LET front == Distinct(SubSeq(list, 1, Len(list) - 1))
             last == list[Len(list)]
         IN IF last \in Range(front) THEN front ELSE Append(front, last)

UsernamesOf(cs) == [i \in 1..Len(cs) |-> cs[i].user.username]

\* determineDiscussionQuality, lines 398-416.  avgLength is total / n in
\* floating point; for these integers avgLength > k is total > k * n.
determineDiscussionQualityAllLinked(cs) ==
    IF Len(cs) = 0 THEN "low"
    ELSE LET total == SumLengths(cs)
             hasCodeBlocks == \A i \in 1..Len(cs) : cs[i].body_markdown.code
             hasLinks == \A i \in 1..Len(cs) : cs[i].body_markdown.http
         IN IF total > 200 * Len(cs) /\ (hasCodeBlocks \/ hasLinks) THEN "high"
            ELSE IF total > 100 * Len(cs) THEN "medium"
            ELSE "low"

determineDiscussionQuality(cs) ==
    IF Len(cs) = 0 THEN "low"
    ELSE LET total == SumLengths(cs)
             hasCodeBlocks == \E i \in 1..Len(cs) : cs[i].body_markdown.code
             hasLinks == \E i \in 1..Len(cs) : cs[i].body_markdown.http
         IN IF total > 200 * Len(cs) /\ (hasCodeBlocks \/ hasLinks) THEN "high"
            ELSE IF total > 100 * Len(cs) THEN "medium"
            ELSE "low"

\* analyzeCommentSentiment, lines 418-433.  The patterns carry no g flag,
\* so test() keeps no position between comments.
analyzeCommentSentimentMajority(cs) ==
    LET positiveCount == CountPositive(cs)
        negativeCount == CountNegative(cs)
    IN IF positiveCount > negativeCount THEN "positive"
       ELSE IF negativeCount > positiveCount THEN "negative"
       ELSE "neutral"

analyzeCommentSentiment(cs) ==
    LET positiveCount == CountPositive(cs)
        negativeCount == CountNegative(cs)
    IN IF positiveCount > negativeCount * 2 THEN "positive"
       ELSE IF negativeCount > positiveCount * 2 THEN "negative"
       ELSE "neutral"

\* identifyExpertContributions, lines 225-238: called by the analyzeDiscussion
\* of line 75 only.
identifyExpertContributions(cs) ==
    LET expertComments ==
            SelectSeq(cs, LAMBDA c :
                /\ c.body_markdown.length > 300
                /\ (c.body_markdown.code \/ c.body_markdown.http))
    IN [count |-> Len(expertComments),
        authors |-> Distinct(UsernamesOf(expertComments))]

\* analyzeDiscussion, lines 302-313: the expert filter is the length alone.
analyzeDiscussion(cs) ==
    LET long == SelectSeq(cs, LAMBDA c : c.body_markdown.length > 300)
    IN [quality |-> determineDiscussionQuality(cs),
        sentiment |-> analyzeCommentSentiment(cs),
        expertContributions |->
            [count |-> Len(long), authors |-> Distinct(UsernamesOf(long))]]

(***************************************************************************)
(* Specification of the discussion analyzer.  A body that includes "```"   *)
(* has at least 3 characters and one that includes "http" at least 4.      *)
(* Bodies vary either in length and markers or in the keyword matches.     *)
(***************************************************************************)
BodyLengths == {0, 100, 101, 200, 201, 300, 301}

MarkerBodies ==
    {b \in [length : BodyLengths, code : BOOLEAN, http : BOOLEAN,
            positive : {FALSE}, negative : {FALSE}] :
        /\ b.code => b.length >= 3
        /\ b.http => b.length >= 4}

KeywordBodies ==
    [length : {100}, code : {FALSE}, http : {FALSE},
     positive : BOOLEAN, negative : BOOLEAN]

Bodies == MarkerBodies \cup KeywordBodies

\* A flat comment list: record i has id i and no parent.
FlatComments(bs, us) ==
    [i \in 1..Len(bs) |-> [id |-> i, parent_id |-> 0, body_markdown |-> bs[i],
                           user |-> [username |-> us[i]]]]

InitDiscussion ==
    /\ pc = "ready"
    /\ \E k \in 0..MaxDiscussion :
           \E bs \in [1..k -> Bodies], us \in [1..k -> Usernames] :
               comments = FlatComments(bs, us)
    /\ discussion = Unused
    /\ rootComments = Unused /\ children = Unused
    /\ content = Unused /\ technical = Unused
    /\ author = Unused /\ articles = Unused /\ authorContext = Unused
    /\ metrics = Unused

AnalyzeDiscussion ==
    /\ pc = "ready"
    /\ discussion' = analyzeDiscussion(comments)
    /\ pc' = "done"
    /\ UNCHANGED <<metrics, comments, rootComments, children, content, technical,
                   author, articles, authorContext>>

NextDiscussion == AnalyzeDiscussion

SpecDiscussion == InitDiscussion /\ [][NextDiscussion]_vars

IsExpert(c) ==
    /\ c.body_markdown.length > 300
    /\ (c.body_markdown.code \/ c.body_markdown.http)

\* C7: a comment is an expert contribution iff its body is longer than 300
\* characters and includes "```" or "http"; count is the number of such
\* comments and authors is exactly the set of their usernames, none repeated.
C7_ExpertContributions ==
    pc = "done" =>
        LET experts == {i \in 1..Len(comments) : IsExpert(comments[i])}
            authors == discussion.expertContributions.authors
        IN /\ discussion.expertContributions.count = Cardinality(experts)
           /\ Range(authors) = {comments[i].user.username : i \in experts}
           /\ Cardinality(Range(authors)) = Len(authors)

\* C8: quality is low for no comments; otherwise high iff the mean body
\* length exceeds 200 and some comment includes "```" or "http", medium iff
\* not high and the mean exceeds 100, and low in every other case.
C8_Quality ==
    pc = "done" =>
        LET n == Len(comments)
            total == SumLengths(comments)
            marked == \E i \in 1..n : comments[i].body_markdown.code
                                      \/ comments[i].body_markdown.http
            high == n > 0 /\ total > 200 * n /\ marked
            medium == n > 0 /\ ~high /\ total > 100 * n
        IN /\ n = 0 => discussion.quality = "low"
           /\ discussion.quality = "high" <=> high
           /\ discussion.quality = "medium" <=> medium
           /\ discussion.quality = "low" <=> (~high /\ ~medium)

\* Two comments of mean length above 200, one of them with a marker, and
\* the other without: high.
C8_Witness ==
    /\ pc = "done"
    /\ Len(comments) = 2
    /\ SumLengths(comments) = 401
    /\ comments[1].body_markdown.code
    /\ ~comments[2].body_markdown.code /\ ~comments[2].body_markdown.http
    /\ discussion.quality = "high"

\* C9: with P and N the numbers of comments matching the positive and the
\* negative pattern, sentiment is positive iff P > 2N, negative iff not
\* positive and N > 2P, neutral otherwise; neutral for no comments; positive
\* and negative never both apply.
C9_Sentiment ==
    pc = "done" =>
        LET P == Cardinality({i \in 1..Len(comments) :
                                 comments[i].body_markdown.positive})
            N == Cardinality({i \in 1..Len(comments) :
                                 comments[i].body_markdown.negative})
        IN /\ discussion.sentiment = "positive" <=> P > 2 * N
           /\ discussion.sentiment = "negative" <=> (~(P > 2 * N) /\ N > 2 * P)
           /\ discussion.sentiment = "neutral" <=> (~(P > 2 * N) /\ ~(N > 2 * P))
           /\ Len(comments) = 0 => discussion.sentiment = "neutral"
           /\ ~(P > 2 * N /\ N > 2 * P)

\* One comment matches both patterns and the other only the positive one:
\* P = 2, N = 1, neutral.
C9_Witness ==
    /\ pc = "done"
    /\ Len(comments) = 2
    /\ comments[1].body_markdown.positive /\ comments[1].body_markdown.negative
    /\ comments[2].body_markdown.positive /\ ~comments[2].body_markdown.negative
    /\ discussion.sentiment = "neutral"

(***************************************************************************)
(* analyzeAuthor and its helpers (content-analysis.ts)                     *)
(***************************************************************************)
RECURSIVE SumReactions(_)
SumReactions(as) ==
    IF as = <<>> THEN 0
    ELSE Head(as).public_reactions_count + SumReactions(Tail(as))

\* Math.round(x) is floor(x + 1/2); for total >= 0 and n > 0,
\* Math.round(total / n) is (2 * total + n) div (2 * n).
Round(total, n) == (2 * total + n) \div (2 * n)

\* calculateAverageReactions, lines 391-396.
calculateAverageReactionsFloor(as) ==
    IF Len(as) = 0 THEN 0 ELSE SumReactions(as) \div Len(as)

calculateAverageReactions(as) ==
    IF Len(as) = 0 THEN 0 ELSE Round(SumReactions(as), Len(as))

\* determineExpertise, lines 376-389.  tagCounts is a Map: entries keep the
\* order in which their tag was first set.
RECURSIVE AllTags(_)
AllTags(as) == IF as = <<>> THEN <<>> ELSE Head(as).tags \o AllTags(Tail(as))

TagEntries(as) ==
    LET all == AllTags(as)
        tags == Distinct(all)
    IN [k \in 1..Len(tags) |-> <<tags[k], Occurrences(all, tags[k])>>]

\* entries.sort((a, b) => b[1] - a[1]): Array.prototype.sort is stable.
RECURSIVE InsertByCountTiesFirst(_, _)
InsertByCountTiesFirst(sorted, e) ==
    IF sorted = <<>> THEN <<e>>
    ELSE IF e[2] >= sorted[Len(sorted)][2]
         THEN Append(InsertByCountTiesFirst(SubSeq(sorted, 1, Len(sorted) - 1), e),
                     sorted[Len(sorted)])
         ELSE Append(sorted, e)

RECURSIVE InsertByCount(_, _)
InsertByCount(sorted, e) ==
    IF sorted = <<>> THEN <<e>>
    ELSE IF e[2] > sorted[Len(sorted)][2]
         THEN Append(InsertByCount(SubSeq(sorted, 1, Len(sorted) - 1), e),
                     sorted[Len(sorted)])
         ELSE Append(sorted, e)

RECURSIVE SortByCount(_)
SortByCount(entries) ==
    IF entries = <<>> THEN <<>>
    ELSE InsertByCount(SortByCount(SubSeq(entries, 1, Len(entries) - 1)),
                       entries[Len(entries)])

determineExpertise(as) ==
    LET sorted == SortByCount(TagEntries(as))
        top == SubSeq(sorted, 1, IF Len(sorted) < 5 THEN Len(sorted) ELSE 5)
    IN [k \in 1..Len(top) |-> top[k][1]]

\* analyzeAuthor, lines 290-300.
analyzeAuthor(a, as) ==
    [name |-> a.name,
     expertise |-> determineExpertise(as),
     credibility |-> [joinDate |-> a.joined_at,
                      articleCount |-> Len(as),
                      averageReactions |-> calculateAverageReactions(as)]]

TagLists == {<<>>, <<"go">>, <<"rust">>, <<"go", "rust">>}

Articles == [public_reactions_count : 0..MaxReactions, tags : TagLists]

Authors == {[name |-> "Ann", joined_at |-> "2020-01-01"]}

InitAuthor ==
    /\ pc = "ready"
    /\ author \in Authors
    /\ \E k \in 0..MaxArticles : articles \in [1..k -> Articles]
    /\ authorContext = Unused
    /\ comments = Unused /\ rootComments = Unused /\ children = Unused
    /\ content = Unused /\ technical = Unused /\ discussion = Unused
    /\ metrics = Unused

AnalyzeAuthor ==
    /\ pc = "ready"
    /\ authorContext' = analyzeAuthor(author, articles)
    /\ pc' = "done"
    /\ UNCHANGED <<metrics, comments, rootComments, children, content, technical,
                   discussion, author, articles>>

NextAuthor == AnalyzeAuthor

SpecAuthor == InitAuthor /\ [][NextAuthor]_vars

\* C10: the average is 0 for no articles, exactly R when all N > 0 articles
\* have R reactions, in general the integer nearest to sum / count (at most
\* one half away from it), and articleCount is the length of the list.
C10_AverageReactions ==
    pc = "done" =>
        LET n == Len(articles)
            total == SumReactions(articles)
            avg == authorContext.credibility.averageReactions
        IN /\ n = 0 => avg = 0
           /\ \A R \in 0..MaxReactions :
                  (n > 0 /\ \A k \in 1..n : articles[k].public_reactions_count = R)
                      => avg = R
           /\ n > 0 => (2 * n * avg - 2 * total <= n /\ 2 * total - 2 * n * avg <= n)
           /\ authorContext.credibility.articleCount = n

\* Three articles with 2 reactions in all: 2/3 rounds to 1.
C10_Witness ==
    /\ pc = "done"
    /\ Len(articles) = 3
    /\ SumReactions(articles) = 2
    /\ authorContext.credibility.averageReactions = 1
    /\ authorContext.credibility.articleCount = 3

(***************************************************************************)
(* Specification of the author profiler on article lists with up to six    *)
(* distinct tags.  determineExpertise uses a tag only as a Map key, so the *)
(* tags are drawn up to renaming: the k-th distinct tag encountered is     *)
(* ExpertiseTags[k].  The tag occurrences are cut into articles of `per`   *)
(* tags each.                                                              *)
(***************************************************************************)
ExpertiseTags == <<"go", "rust", "ts", "js", "py", "c">>

\* Tag k + 1 is first used after tag k.
FirstUseInOrder(ts) ==
    \A i \in 1..Len(ts) : ts[i] > 1 => \E j \in 1..(i - 1) : ts[j] = ts[i] - 1

TaggedArticles(ts, per) ==
    [k \in 1..((Len(ts) + per - 1) \div per) |->
        [public_reactions_count |-> 1,
         tags |-> [j \in 1..(IF k * per <= Len(ts) THEN per
                             ELSE Len(ts) - (k - 1) * per) |->
                      ExpertiseTags[ts[(k - 1) * per + j]]]]]

InitExpertise ==
    /\ pc = "ready"
    /\ author \in Authors
    /\ \E n \in 0..MaxTagOccurrences :
           \E ts \in [1..n -> 1..Len(ExpertiseTags)] :
               /\ FirstUseInOrder(ts)
               /\ \E per \in 1..MaxTagsPerArticle :
                      articles = TaggedArticles(ts, per)
    /\ authorContext = Unused
    /\ comments = Unused /\ rootComments = Unused /\ children = Unused
    /\ content = Unused /\ technical = Unused /\ discussion = Unused
    /\ metrics = Unused

SpecExpertise == InitExpertise /\ [][NextAuthor]_vars

TagCount(t) == Occurrences(AllTags(articles), t)

\* Position of the first occurrence of tag t over the articles' tag lists.
FirstSeen(t) ==
    LET all == AllTags(articles)
    IN CHOOSE i \in 1..Len(all) :
           all[i] = t /\ \A j \in 1..(i - 1) : all[j] # t

\* C11: expertise holds at most 5 tags, none twice, each a tag of some
\* article, by descending occurrence count with ties in first-encounter
\* order; a tag is left out only when 5 are in, and its count exceeds the
\* count of no tag that is in.
C11_ExpertiseTopFive ==
    pc = "done" =>
        LET e == authorContext.expertise
            used == Range(AllTags(articles))
        IN /\ Len(e) <= 5
           /\ Cardinality(Range(e)) = Len(e)
           /\ Range(e) \subseteq used
           /\ \A i, j \in 1..Len(e) :
                  i < j => \/ TagCount(e[i]) > TagCount(e[j])
                           \/ /\ TagCount(e[i]) = TagCount(e[j])
                              /\ FirstSeen(e[i]) < FirstSeen(e[j])
           /\ \A t \in used \ Range(e) :
                  /\ Len(e) = 5
                  /\ \A u \in Range(e) : TagCount(t) <= TagCount(u)

\* Six distinct tags; the last one encountered occurs twice and leads, the
\* others tie and keep their encounter order, and the fifth of them is out.
C11_Witness ==
    /\ pc = "done"
    /\ Cardinality(Range(AllTags(articles))) = 6
    /\ authorContext.expertise = <<"c", "go", "rust", "ts", "js">>
    /\ Len(articles) > 1

(***************************************************************************)
(* The analyze_discussion handler (server, lines 148-168): the comments    *)
(* of the article go through getArticleComments, which returns             *)
(* buildCommentTree(response.data), and the returned array is what         *)
(* analyzeDiscussion and the metrics read.  `comments` is response.data.   *)
(***************************************************************************)
LongLinkedBody == [length |-> 301, code |-> FALSE, http |-> TRUE,
                   positive |-> FALSE, negative |-> FALSE]

PositiveBody == [length |-> 100, code |-> FALSE, http |-> FALSE,
                 positive |-> TRUE, negative |-> FALSE]

HandlerBodies == {PlainBody, LongLinkedBody, PositiveBody}

HandlerComments ==
    [id : CommentIds, parent_id : ParentIds, body_markdown : HandlerBodies,
     user : [username : Usernames]]

\* The array getArticleComments returns, as the records it holds.
RecordsOf(cs, list) == [k \in 1..Len(list) |-> cs[list[k]]]

\* metrics, lines 163-167.
handlerMetrics(returned) ==
    [totalComments |-> Len(returned),
     threadCount |->
         Cardinality({k \in 1..Len(returned) : returned[k].parent_id = 0}),
     participantCount |-> Cardinality(Range(UsernamesOf(returned)))]

InitHandler ==
    /\ pc = "ready"
    /\ \E k \in 0..MaxDiscussion : comments \in [1..k -> HandlerComments]
    /\ rootComments = <<>>
    /\ children = [i \in 1..Len(comments) |-> <<>>]
    /\ discussion = Unused /\ metrics = Unused
    /\ content = Unused /\ technical = Unused
    /\ author = Unused /\ articles = Unused /\ authorContext = Unused

AnalyzeArticleDiscussion ==
    /\ pc = "ready"
    /\ LET t == buildCommentTree(comments)
           returned == RecordsOf(comments, t.roots)
       IN /\ rootComments' = t.roots
          /\ children' = t.kids
          /\ discussion' = analyzeDiscussion(returned)
          /\ metrics' = handlerMetrics(returned)
    /\ pc' = "done"
    /\ UNCHANGED <<comments, content, technical, author, articles,
                   authorContext>>

NextHandler == AnalyzeArticleDiscussion

SpecHandler == InitHandler /\ [][NextHandler]_vars

\* C12: the DiscussionContext the handler obtains from the tree-built list
\* equals the DiscussionContext of the flat list of the same comments, so a
\* reply nested under a parent counts as a top-level comment does.  Stated
\* for the inputs whose tree holds every comment, so that a difference is
\* owed to the nesting and not to a record buildCommentTree left out.
C12_TreeShapeIrrelevant ==
    (pc = "done" /\ Reachable = 1..Len(comments)) =>
        discussion = analyzeDiscussion(comments)

\* The indices of 1..n that satisfy the test, in increasing order.
RECURSIVE Ascending(_, _)
Ascending(S, n) ==
    IF n = 0 THEN <<>>
    ELSE IF n \in S THEN Append(Ascending(S, n - 1), n)
         ELSE Ascending(S, n - 1)

\* The records the code treats as roots: those with a falsy parent_id.
TreatedAsRoot(cs) == {i \in 1..Len(cs) : cs[i].parent_id = 0}

\* The records the code attaches to record j: those whose truthy parent_id
\* is j's id, j being the last record that carries it.
AttachedTo(cs, j) ==
    {i \in 1..Len(cs) :
        /\ cs[i].parent_id # 0
        /\ cs[i].parent_id = cs[j].id
        /\ LastWithId(cs, j)}

\* C13: the root list is the input subsequence of the records treated as
\* roots and every children list is the input subsequence of the records
\* attached to that comment, both in input order, wherever the parent
\* stands in the input.
C13_EncounterOrder ==
    pc = "done" =>
        /\ rootComments = Ascending(TreatedAsRoot(comments), Len(comments))
        /\ \A j \in 1..Len(comments) :
               children[j] = Ascending(AttachedTo(comments, j), Len(comments))

\* Two replies precede their parent in the input and keep their order.
C13_Witness ==
    /\ pc = "done"
    /\ Len(comments) = 3
    /\ comments[3].parent_id = 0
    /\ comments[1].parent_id = comments[3].id
    /\ comments[2].parent_id = comments[3].id
    /\ rootComments = <<3>>
    /\ children[3] = <<1, 2>>

\* C14: every record of the root list has a falsy parent_id, every record
\* of a children list has the id of the list's owner as its parent_id, and
\* no record is in the root list and in a children list.
C14_ParentChildConsistency ==
    pc = "done" =>
        /\ \A i \in Range(rootComments) : comments[i].parent_id = 0
        /\ \A j \in 1..Len(comments) :
               \A i \in Range(children[j]) :
                   comments[i].parent_id = comments[j].id
        /\ \A i \in Range(rootComments) : ~InSomeChildren(i)

\* A root with a reply, next to a record whose parent no comment carries.
C14_Witness ==
    /\ pc = "done"
    /\ Len(comments) = 3
    /\ rootComments = <<1>>
    /\ children[1] = <<2>>
    /\ ParentMissing(comments, 3)

====
